---- MODULE Spec2Model ----
(***************************************************************************)
(* SapuText: the wizard, the hosting App, the BookEditor and the Gemini    *)
(* service wrappers (generateBookStructure, generateImageForPage,          *)
(* refineText), as a state machine.                                        *)
(*                                                                         *)
(* JavaScript values are modelled as follows.                              *)
(*  - string | undefined : a TLA+ string, with Undefined for undefined.    *)
(*  - crypto.randomUUID(): the next value of the counter nextUUID (UUIDs   *)
(*    are taken to be collision free); 0 stands for "no id".               *)
(*  - an awaited promise  : an element of inflight, resumed by a later     *)
(*    action that receives the response.  The closure of the resumed code  *)
(*    (the project, activePageIndex and activePage of the render in which  *)
(*    the handler was created) is stored in the element.                   *)
(***************************************************************************)
EXTENDS Integers, Sequences, FiniteSets, TLC

\* ---------------------------------------------------------------- bounds
\* longest pages array in a service answer
MaxSvcPages == 2
\* longest parts array in an image answer
MaxParts == 2
\* pages a project may grow to by add-page
MaxPages == 3
\* structure generations the wizard may submit in one run
MaxSubmits == 1
\* field edits the user makes in one run
MaxEdits == 1
\* asynchronous operations (generation, refinement, upload, export) the user
\* starts in the BookEditor in one run
MaxOps == 1
\* file reads of the Wizard in flight at the same time
MaxReads == 1
\* calls of the service functions made directly in one run
MaxCalls == 2

\* ------------------------------------------------------------ JS values
Undefined == "<undefined>"

\* !x for x : string | undefined
Falsy(x) == x \in {Undefined, ""}

\* a || b
Or(a, b) == IF Falsy(a) THEN b ELSE a

\* ------------------------------------------------------------- types.ts
LAYOUTS == {"image-top", "image-bottom", "image-left", "image-right", "full-text"}

EDUCATIONAL == "Educativo"

FLAT_DESIGN == "Flat Design (Infografico)"

\* DEFAULT_COLORS
DEFAULT_COLORS == [primary |-> "#16a34a", secondary |-> "#f0fdf4"]

\* ------------------------------------------------- service answers (input)
\* A page object as the text service may send it.  The schema asks for title,
\* content, imagePrompt, mascotTip and layout; nothing stops the object from
\* carrying id, pageNumber or generatedImage as well (id 0 / pageNumber 0:
\* the field is absent).
SvcPagePlain ==
    [id |-> 0, pageNumber |-> 0, title |-> "A", content |-> "Step A.",
     imagePrompt |-> "draw A", mascotTip |-> "tip A", layout |-> "image-top",
     generatedImage |-> Undefined]

SvcPageProposing ==
    [id |-> 99, pageNumber |-> 7, title |-> "B", content |-> "Step B.",
     imagePrompt |-> "draw B", mascotTip |-> Undefined, layout |-> "full-text",
     generatedImage |-> "data:image/png;base64,SVC"]

SvcPageObjects == {SvcPagePlain, SvcPageProposing}

SeqsUpTo(S, n) == UNION {[1..k -> S] : k \in 0..n}

\* data.pages: absent (or another falsy value), an array, or a truthy value
\* that is no array
PagesAbsent == [type |-> "absent", items |-> <<>>]

PagesNotArray == [type |-> "other", items |-> <<>>]

PagesArray(items) == [type |-> "array", items |-> items]

\* the value JSON.parse returns
JsonNull ==
    [type |-> "null", title |-> Undefined, subtitle |-> Undefined,
     visualIdentity |-> Undefined, coverImagePrompt |-> Undefined,
     pages |-> PagesAbsent]

JsonObject(t, s, v, c, p) ==
    [type |-> "object", title |-> t, subtitle |-> s, visualIdentity |-> v,
     coverImagePrompt |-> c, pages |-> p]

\* the object "{}"
EmptyObject == JsonObject(Undefined, Undefined, Undefined, Undefined, PagesAbsent)

\* response.text: undefined, "", a text that is no JSON, or the JSON text of
\* a value
TextUndefined == [form |-> "undefined", value |-> JsonNull]

TextEmpty == [form |-> "empty", value |-> JsonNull]

TextInvalid == [form |-> "invalid", value |-> JsonNull]

TextOf(value) == [form |-> "json", value |-> value]

\* the answer to ai.models.generateContent: the promise rejects, or resolves
\* with a response
Rejected == [settled |-> "rejected"]

StructureResponse(text) == [settled |-> "resolved", text |-> text]

SvcStrings == {Undefined, "From service"}

AllStructureResponses ==
    {Rejected}
    \cup {StructureResponse(t) : t \in {TextUndefined, TextEmpty, TextInvalid, TextOf(JsonNull)}}
    \cup {StructureResponse(TextOf(JsonObject(t, s, v, c, p))) :
            t \in SvcStrings \cup {""}, s \in SvcStrings, v \in SvcStrings, c \in SvcStrings,
            p \in {PagesAbsent, PagesNotArray}
                  \cup {PagesArray(items) : items \in SeqsUpTo(SvcPageObjects, MaxSvcPages)}}

\* a part of candidates[0].content.parts
TextPart == [inlineData |-> FALSE, mimeType |-> Undefined, data |-> Undefined]

PngPart == [inlineData |-> TRUE, mimeType |-> "image/png", data |-> "AAAA"]

JpegPart == [inlineData |-> TRUE, mimeType |-> "image/jpeg", data |-> "BBBB"]

BlankPart == [inlineData |-> TRUE, mimeType |-> "", data |-> ""]

ImageResponse(hasParts, parts) ==
    [settled |-> "resolved", hasParts |-> hasParts, parts |-> parts]

AllImageResponses ==
    {Rejected, ImageResponse(FALSE, <<>>)}
    \cup {ImageResponse(TRUE, ps) :
            ps \in SeqsUpTo({TextPart, PngPart, JpegPart, BlankPart}, MaxParts)}

RefineResponse(text) == [settled |-> "resolved", text |-> text]

AllRefineResponses ==
    {Rejected} \cup {RefineResponse(t) : t \in {Undefined, "", "Refined text."}}

\* process.env.API_KEY
ApiKeys == {Undefined, "", "KEY"}

\* ------------------------------------------------- services/geminiService.ts
\* a getClient that only rejects a key that is not set at all
getClient_UndefinedOnly(key) == [threw |-> key = Undefined]

\* getClient: throws when the key is falsy
getClient(key) == [threw |-> Falsy(key)]

\* a request that is sent again when the first attempt is slow
Invoke_Twice(key) ==
    IF getClient(key).threw
    THEN [threw |-> TRUE, requests |-> 0]
    ELSE [threw |-> FALSE, requests |-> 2]

\* the first lines of the three service functions: const ai = getClient()
\* throws before anything is sent, else one ai.models.generateContent request
\* is issued and awaited
Invoke(key) ==
    IF getClient(key).threw
    THEN [threw |-> TRUE, requests |-> 0]
    ELSE [threw |-> FALSE, requests |-> 1]

\* JSON.parse
JSON_parse(text) ==
    IF text.form = "invalid"
    THEN [threw |-> TRUE, value |-> JsonNull]
    ELSE [threw |-> FALSE, value |-> text.value]

\* response.text || "{}"
TextOrEmptyObject(text) ==
    IF text.form \in {"undefined", "empty"} THEN TextOf(EmptyObject) ELSE text

\* the spread written last, { id, pageNumber, generatedImage, ...p }: the
\* fields of the service's page win
HydratePage_SpreadLast(p, index, uuid) == p

\* the object built for one element of data.pages; index is 0-based and uuid
\* the value crypto.randomUUID() returned
HydratePage(p, index, uuid) ==
    [p EXCEPT !.id = uuid, !.pageNumber = index + 1, !.generatedImage = Undefined]

\* (data.pages || []).map(...), the k-th call of crypto.randomUUID() returning
\* uuid0 + k
HydratePages(pages, uuid0) ==
    [i \in 1..Len(pages.items) |-> HydratePage(pages.items[i], i - 1, uuid0 + i)]

NoStructure == [none |-> TRUE]

\* a catch block that returns a structure made of the defaults instead of
\* rethrowing
generateBookStructure_Degraded(topic, context, genre, imageStyle, pageCount, response, uuid0) ==
    [threw |-> FALSE,
     value |-> [title |-> topic, subtitle |-> "Manual Pratico SapuText",
                visualIdentity |-> "Estilo consistente para " \o topic
                                     \o ", fundo branco e limpo.",
                coverImagePrompt |-> "Uma ilustracao tecnica e artistica sobre "
                                       \o topic \o ", alta qualidade",
                pages |-> <<>>],
     uuids |-> 0]

\* generateBookStructure from the line after the await: the outcome for a
\* response of the service
generateBookStructure(topic, context, genre, imageStyle, pageCount, response, uuid0) ==
    IF response.settled = "rejected"
    THEN [threw |-> TRUE, value |-> NoStructure, uuids |-> 0]
    ELSE LET parsed == JSON_parse(TextOrEmptyObject(response.text))
             data   == parsed.value
         IN  IF parsed.threw \/ data.type = "null" \/ data.pages.type = "other"
             THEN [threw |-> TRUE, value |-> NoStructure, uuids |-> 0]
             ELSE [threw |-> FALSE,
                   value |->
                     [title            |-> Or(data.title, topic),
                      subtitle         |-> Or(data.subtitle, "Manual Pratico SapuText"),
                      visualIdentity   |-> Or(data.visualIdentity,
                                              "Estilo consistente para " \o topic
                                                \o ", fundo branco e limpo."),
                      coverImagePrompt |-> Or(data.coverImagePrompt,
                                              "Uma ilustracao tecnica e artistica sobre "
                                                \o topic \o ", alta qualidade"),
                      pages            |-> HydratePages(data.pages, uuid0)],
                   uuids |-> Len(data.pages.items)]

\* the data URI of a part with inline data
DataUri(part) ==
    "data:" \o (IF part.mimeType = Undefined THEN "undefined" ELSE part.mimeType)
            \o ";base64,"
            \o (IF part.data = Undefined THEN "undefined" ELSE part.data)

\* the for loop over the parts: '' or the URI of the first part with inlineData
RECURSIVE FirstInlineImage(_)
FirstInlineImage(parts) ==
    IF parts = <<>> THEN ""
    ELSE IF Head(parts).inlineData THEN DataUri(Head(parts))
    ELSE FirstInlineImage(Tail(parts))

\* the loop's result returned as it is, '' when no part carries an image
generateImageForPage_ReturnsEmpty(prompt, contextText, visualIdentity, response) ==
    IF response.settled = "rejected"
    THEN [threw |-> TRUE, value |-> Undefined]
    ELSE [threw |-> FALSE,
          value |-> FirstInlineImage(IF response.hasParts THEN response.parts ELSE <<>>)]

\* a stock picture returned when the response carries no image
generateImageForPage_Placeholder(prompt, contextText, visualIdentity, response) ==
    IF response.settled = "rejected"
    THEN [threw |-> TRUE, value |-> Undefined]
    ELSE LET imageUrl == FirstInlineImage(IF response.hasParts THEN response.parts ELSE <<>>)
         IN  [threw |-> FALSE,
              value |-> Or(imageUrl, "https://cdn-icons-png.flaticon.com/512/4712/4712009.png")]

\* generateImageForPage from the line after the await
generateImageForPage(prompt, contextText, visualIdentity, response) ==
    IF response.settled = "rejected"
    THEN [threw |-> TRUE, value |-> Undefined]
    ELSE LET imageUrl == FirstInlineImage(IF response.hasParts THEN response.parts ELSE <<>>)
         IN  IF Falsy(imageUrl)
             THEN [threw |-> TRUE, value |-> Undefined]
             ELSE [threw |-> FALSE, value |-> imageUrl]

\* return response.text, without the fallback
refineText_NoFallback(currentText, instruction, response) ==
    IF response.settled = "rejected"
    THEN [threw |-> TRUE, value |-> Undefined]
    ELSE [threw |-> FALSE, value |-> response.text]

\* the request wrapped in a try whose catch returns currentText
refineText_Swallows(currentText, instruction, response) ==
    IF response.settled = "rejected"
    THEN [threw |-> FALSE, value |-> currentText]
    ELSE [threw |-> FALSE, value |-> Or(response.text, currentText)]

\* refineText from the line after the await
refineText(currentText, instruction, response) ==
    IF response.settled = "rejected"
    THEN [threw |-> TRUE, value |-> Undefined]
    ELSE [threw |-> FALSE, value |-> Or(response.text, currentText)]

\* ---------------------------------------------------------------- state
VARIABLES
    apiKey,      \* process.env.API_KEY
    nextUUID,    \* identifiers crypto.randomUUID() has returned so far
    now,         \* Date.now()
    project,     \* App: useState<BookProject | null>
    isLoading,   \* App: useState(false)
    wizard,      \* Wizard: step and data (mounted while project is null)
    editor,      \* BookEditor: activePageIndex and the three busy flags
    inflight,    \* awaited promises and file reads, each with its closure
    containers,  \* off-screen containers exportPDF has appended to document.body
    submits,     \* structure generations submitted so far
    edits,       \* field edits made so far
    ops,         \* asynchronous BookEditor operations started so far (under
                 \* SvcSpec: calls of the service functions made so far)
    last         \* the handler or continuation that ran last, and what it did

vars == <<apiKey, nextUUID, now, project, isLoading, wizard, editor, inflight,
          containers, submits, edits, ops, last>>

Null == [null |-> TRUE]

NoData == [none |-> TRUE]

NoArtifact == [none |-> TRUE]

NoResponse == [none |-> TRUE]

\* Wizard: the initial useState values
InitialWizard ==
    [step |-> 1,
     data |-> [topic |-> "", uploadedContext |-> "", genre |-> EDUCATIONAL,
               imageStyle |-> FLAT_DESIGN, pageCount |-> 10]]

\* BookEditor: the initial useState values
InitialEditor ==
    [activePageIndex |-> -1, isGeneratingImage |-> FALSE,
     isRefiningText |-> FALSE, isExporting |-> FALSE]

\* what a handler or continuation reports of itself
Event(op) ==
    [op |-> op, threw |-> FALSE, alert |-> "", requests |-> 0,
     structure |-> NoStructure, text |-> Undefined, input |-> Undefined,
     index |-> -1, pageCount |-> 0, artifact |-> NoArtifact,
     response |-> NoResponse, updated |-> FALSE, repeated |-> FALSE]

\* a catch block that logs the error and shows nothing
Catch_Silent(ev, message) == [ev EXCEPT !.threw = TRUE]

\* catch (e) { console.error(e); alert(message) }: the operation failed and
\* the user is told
Catch(ev, message) == [ev EXCEPT !.threw = TRUE, !.alert = message]

\* an awaited operation: kind, whether the component that started it is still
\* mounted, and the values its continuation closes over
Op(kind, data, proj, idx, file, doc) ==
    [kind |-> kind, live |-> TRUE, data |-> data, project |-> proj,
     activePageIndex |-> idx, file |-> file, doc |-> doc]

EditorKinds == {"image", "readImage", "refine", "pdf", "ppt"}

\* BookEditor line 30: project.pages[activePageIndex], 0-based
HasActivePage(proj, idx) == idx >= 0 /\ idx < Len(proj.pages)

ActivePage(proj, idx) == proj.pages[idx + 1]

\* ------------------------------------------------ App: setProject + render
\* The render after setProject(p): the Wizard is mounted while the project is
\* null and the BookEditor while it is not.  A component that is mounted
\* starts from its initial state; an operation started by an unmounted
\* BookEditor keeps running (its setState calls do nothing), a file read of the
\* unmounted Wizard only calls setData and is dropped.  ed, wz and pending are the
\* values the handler itself leaves.
EditorAfter(p, ed) == IF project # Null /\ p # Null THEN ed ELSE InitialEditor

WizardAfter(p, wz) == IF project = Null /\ p = Null THEN wz ELSE InitialWizard

InflightAfter(p, pending) ==
    IF project # Null /\ p = Null
    THEN {IF o.kind \in EditorKinds THEN [o EXCEPT !.live = FALSE] ELSE o : o \in pending}
    ELSE IF project = Null /\ p # Null
    THEN {o \in pending : o.kind # "readText"}
    ELSE pending

setProject(p, ed, wz, pending) ==
    /\ project' = p
    /\ editor' = EditorAfter(p, ed)
    /\ wizard' = WizardAfter(p, wz)
    /\ inflight' = InflightAfter(p, pending)

Init ==
    /\ apiKey \in ApiKeys
    /\ nextUUID = 0
    /\ now = 0
    /\ project = Null
    /\ isLoading = FALSE
    /\ wizard = InitialWizard
    /\ editor = InitialEditor
    /\ inflight = {}
    /\ containers = 0
    /\ submits = 0
    /\ edits = 0
    /\ ops = 0
    /\ last = Event("init")

\* ---------------------------------------------------------------- Wizard
Topics == {"", "motor"}

TextFiles == {"", "Base text."}

GenreChoices == {EDUCATIONAL, "Outros"}

StyleChoices == {FLAT_DESIGN, "Realista"}

\* what the user may type in the page-count field, with parseInt of it
\* (-1 stands for NaN)
PageCountTexts == {"", "1", "3", "101"}

parseInt(s) ==
    CASE s = "1" -> 1 [] s = "3" -> 3 [] s = "101" -> 101 [] OTHER -> -1

\* parseInt(e.target.value) || 0
ParseIntOrZero(s) == IF parseInt(s) = -1 \/ parseInt(s) = 0 THEN 0 ELSE parseInt(s)

WizardShown == project = Null

\* textarea onChange (step 1)
WizardSetTopic ==
    /\ WizardShown /\ wizard.step = 1
    /\ \E v \in Topics :
         /\ v # wizard.data.topic
         /\ wizard' = [wizard EXCEPT !.data.topic = v]
    /\ last' = Event("Wizard.topic")
    /\ UNCHANGED <<apiKey, nextUUID, now, project, isLoading, editor, inflight,
                   containers, submits, edits, ops>>

\* handleFileChange (step 1): reader.readAsText(file)
handleFileChange ==
    /\ WizardShown /\ wizard.step = 1
    /\ Cardinality({o \in inflight : o.kind = "readText"}) < MaxReads
    /\ \E text \in TextFiles :
         inflight' = inflight \cup {Op("readText", NoData, Null, -1, text, <<>>)}
    /\ last' = Event("handleFileChange")
    /\ UNCHANGED <<apiKey, nextUUID, now, project, isLoading, wizard, editor,
                   containers, submits, edits, ops>>

\* reader.onload of handleFileChange
WizardReaderOnload ==
    \E o \in inflight :
      /\ o.kind = "readText"
      /\ inflight' = inflight \ {o}
      /\ wizard' = [wizard EXCEPT !.data.uploadedContext = o.file]
      /\ last' = Event("Wizard.reader.onload")
      /\ UNCHANGED <<apiKey, nextUUID, now, project, isLoading, editor,
                     containers, submits, edits, ops>>

\* the two selects and the page-count input (step 2)
WizardSettings ==
    /\ WizardShown /\ wizard.step = 2
    /\ edits < MaxEdits
    /\ \/ \E g \in GenreChoices \ {wizard.data.genre} :
            wizard' = [wizard EXCEPT !.data.genre = g]
       \/ \E s \in StyleChoices \ {wizard.data.imageStyle} :
            wizard' = [wizard EXCEPT !.data.imageStyle = s]
       \/ \E t \in PageCountTexts :
            wizard' = [wizard EXCEPT !.data.pageCount = ParseIntOrZero(t)]
    /\ edits' = edits + 1
    /\ last' = Event("Wizard.settings")
    /\ UNCHANGED <<apiKey, nextUUID, now, project, isLoading, editor, inflight,
                   containers, submits, ops>>

\* nextStep: the Continue button of step 1 is disabled while topic and
\* uploadedContext are both empty; the one of step 2 never is
nextStep ==
    /\ WizardShown
    /\ \/ wizard.step = 1 /\ ~(Falsy(wizard.data.topic) /\ Falsy(wizard.data.uploadedContext))
       \/ wizard.step = 2
    /\ wizard' = [wizard EXCEPT !.step = @ + 1]
    /\ last' = Event("nextStep")
    /\ UNCHANGED <<apiKey, nextUUID, now, project, isLoading, editor, inflight,
                   containers, submits, edits, ops>>

\* prevStep: the Voltar button of steps 2 and 3
prevStep ==
    /\ WizardShown /\ wizard.step \in {2, 3}
    /\ wizard' = [wizard EXCEPT !.step = @ - 1]
    /\ last' = Event("prevStep")
    /\ UNCHANGED <<apiKey, nextUUID, now, project, isLoading, editor, inflight,
                   containers, submits, edits, ops>>

\* ------------------------------------------- App.handleWizardComplete
\* the answers of the text service the App is run against
AppStructureResponses ==
    {Rejected, StructureResponse(TextInvalid), StructureResponse(TextEmpty),
     StructureResponse(TextOf(JsonObject("From service", "From service", "From service",
                                         "From service", PagesNotArray))),
     StructureResponse(TextOf(JsonObject("From service", "From service", "From service",
                                         Undefined, PagesArray(<<SvcPageProposing>>)))),
     StructureResponse(TextOf(JsonObject("From service", Undefined, "From service",
                                         "From service",
                                         PagesArray(<<SvcPagePlain, SvcPageProposing>>))))}

\* title: structure.title, without the fallback
NewProject_NoTitleFallback(structure, data, uuid, time) ==
    [id               |-> uuid,
     title            |-> structure.title,
     subtitle         |-> Or(structure.subtitle, ""),
     topic            |-> data.topic,
     genre            |-> data.genre,
     imageStyle       |-> data.imageStyle,
     totalPages       |-> data.pageCount,
     pages            |-> structure.pages,
     primaryColor     |-> DEFAULT_COLORS.primary,
     secondaryColor   |-> DEFAULT_COLORS.secondary,
     coverImage       |-> Undefined,
     coverImagePrompt |-> structure.coverImagePrompt,
     visualIdentity   |-> Or(structure.visualIdentity, "Estilo padrao consistente."),
     createdAt        |-> time]

\* App lines 37-51: the project built from a structure
NewProject(structure, data, uuid, time) ==
    [id               |-> uuid,
     title            |-> Or(structure.title, "Novo Livro"),
     subtitle         |-> Or(structure.subtitle, ""),
     topic            |-> data.topic,
     genre            |-> data.genre,
     imageStyle       |-> data.imageStyle,
     totalPages       |-> data.pageCount,
     pages            |-> structure.pages,
     primaryColor     |-> DEFAULT_COLORS.primary,
     secondaryColor   |-> DEFAULT_COLORS.secondary,
     coverImage       |-> Undefined,
     coverImagePrompt |-> structure.coverImagePrompt,
     visualIdentity   |-> Or(structure.visualIdentity, "Estilo padrao consistente."),
     createdAt        |-> time]

AlertStructure ==
    "Houve um erro ao gerar o livro. Verifique sua conexao ou tente um tema diferente."

\* a submit button that is never disabled
SubmitDisabled_Never == FALSE

\* Wizard line 276: disabled={isLoading} on the submit button
SubmitDisabled == isLoading

\* Wizard.handleSubmit -> App.handleWizardComplete up to the await: with no
\* key getClient throws, generateBookStructure rejects without a request and
\* the catch and finally blocks run at once
handleSubmit ==
    /\ WizardShown /\ wizard.step = 3 /\ ~SubmitDisabled
    /\ submits < MaxSubmits
    /\ submits' = submits + 1
    /\ LET call == Invoke(apiKey)
             ev   == [Event("handleWizardComplete") EXCEPT
                        !.requests = call.requests, !.threw = call.threw,
                        !.pageCount = wizard.data.pageCount, !.input = wizard.data.topic]
       IN  IF call.threw
           THEN /\ isLoading' = FALSE
                /\ inflight' = inflight
                /\ last' = Catch(ev, AlertStructure)
           ELSE /\ isLoading' = TRUE
                /\ inflight' = inflight \cup
                     {Op("structure", wizard.data, Null, -1, "", <<>>)}
                /\ last' = ev
    /\ UNCHANGED <<apiKey, nextUUID, now, project, wizard, editor, containers, edits,
                   ops>>

\* App.handleWizardComplete from the await on: the service has answered
StructureSettled ==
    \E o \in inflight, r \in AppStructureResponses :
      /\ o.kind = "structure"
      /\ LET d   == o.data
             res == generateBookStructure(d.topic, d.uploadedContext, d.genre,
                                          d.imageStyle, d.pageCount, r, nextUUID)
             ev  == [Event("handleWizardComplete.settled") EXCEPT
                       !.response = r, !.threw = res.threw,
                       !.structure = res.value, !.pageCount = d.pageCount,
                       !.input = d.topic]
         IN  IF res.threw
             THEN /\ inflight' = inflight \ {o}
                  /\ last' = Catch(ev, AlertStructure)
                  /\ UNCHANGED <<project, wizard, editor, nextUUID, now>>
             ELSE /\ setProject(NewProject(res.value, d, nextUUID + res.uuids + 1, now),
                                editor, wizard, inflight \ {o})
                  /\ nextUUID' = nextUUID + res.uuids + 1
                  /\ now' = now + 1
                  /\ last' = [ev EXCEPT !.updated = TRUE]
      /\ isLoading' = FALSE
      /\ UNCHANGED <<apiKey, containers, submits, edits, ops>>

\* ------------------------------------------------------------ BookEditor
\* the cover editor is rendered when activePageIndex is -1, the page editor
\* when the active page exists, and nothing otherwise (line 415)
CoverView == project # Null /\ editor.activePageIndex = -1

PageView == project # Null /\ HasActivePage(project, editor.activePageIndex)

Rendered == CoverView \/ PageView

\* App.handleUpdateProject, as the BookEditor's onUpdateProject
onUpdateProject(p, ed, pending) == setProject(p, ed, wizard, pending)

\* onBack: confirm(...) and, when confirmed, setProject(null)
onBack ==
    /\ Rendered
    /\ \E confirmed \in BOOLEAN :
         IF confirmed
         THEN /\ setProject(Null, editor, wizard, inflight)
              /\ last' = [Event("onBack") EXCEPT !.updated = TRUE]
         ELSE /\ UNCHANGED <<project, editor, wizard, inflight>>
              /\ last' = Event("onBack")
    /\ UNCHANGED <<apiKey, nextUUID, now, isLoading, containers, submits, edits, ops>>

\* the sidebar buttons: setActivePageIndex(-1) and setActivePageIndex(idx)
setActivePageIndex ==
    /\ Rendered
    /\ \E idx \in -1 .. (Len(project.pages) - 1) :
         /\ idx # editor.activePageIndex
         /\ editor' = [editor EXCEPT !.activePageIndex = idx]
    /\ last' = Event("setActivePageIndex")
    /\ UNCHANGED <<apiKey, nextUUID, now, project, isLoading, wizard, inflight,
                   containers, submits, edits, ops>>

\* pageNumber: project.pages.length, the 0-based index of the new page
NewPage_OffByOne(proj, uuid) ==
    [id |-> uuid, pageNumber |-> Len(proj.pages), title |-> "Novo Passo",
     content |-> "Descreva a proxima etapa do processo...",
     imagePrompt |-> "Esquema tecnico desta etapa...", layout |-> "image-top",
     mascotTip |-> "Dica de seguranca ou montagem...",
     generatedImage |-> Undefined]

\* pageNumber: project.totalPages + 1, the count asked of the wizard
NewPage_CountsTotal(proj, uuid) ==
    [id |-> uuid, pageNumber |-> proj.totalPages + 1, title |-> "Novo Passo",
     content |-> "Descreva a proxima etapa do processo...",
     imagePrompt |-> "Esquema tecnico desta etapa...", layout |-> "image-top",
     mascotTip |-> "Dica de seguranca ou montagem...",
     generatedImage |-> Undefined]

\* the page the add-page button builds (lines 459-467)
NewPage(proj, uuid) ==
    [id |-> uuid, pageNumber |-> Len(proj.pages) + 1, title |-> "Novo Passo",
     content |-> "Descreva a proxima etapa do processo...",
     imagePrompt |-> "Esquema tecnico desta etapa...", layout |-> "image-top",
     mascotTip |-> "Dica de seguranca ou montagem...",
     generatedImage |-> Undefined]

\* { ...project, pages: [...project.pages, newPage] }
WithNewPage(proj, uuid) == [proj EXCEPT !.pages = Append(@, NewPage(proj, uuid))]

\* the add-page button (page editor only)
AddPage ==
    /\ PageView
    /\ Len(project.pages) < MaxPages
    /\ onUpdateProject(WithNewPage(project, nextUUID + 1),
                       [editor EXCEPT !.activePageIndex = Len(project.pages)], inflight)
    /\ nextUUID' = nextUUID + 1
    /\ last' = [Event("addPage") EXCEPT !.updated = TRUE]
    /\ UNCHANGED <<apiKey, now, isLoading, containers, submits, edits, ops>>

\* { ...project, [key]: value, createdAt: Date.now() }: the time stamp
\* refreshed on every edit
handleUpdateProject_Touches(proj, key, value) ==
    [proj EXCEPT ![key] = value, !.createdAt = @ + 1]

\* BookEditor.handleUpdateProject: { ...project, [key]: value }
handleUpdateProject(proj, key, value) == [proj EXCEPT ![key] = value]

\* the field written to every page instead of the page at activePageIndex
handleUpdatePage_EveryPage(proj, idx, key, value) ==
    IF idx = -1
    THEN [called |-> FALSE, project |-> proj]
    ELSE [called |-> TRUE,
          project |-> [proj EXCEPT !.pages =
                         [i \in 1..Len(proj.pages) |-> [proj.pages[i] EXCEPT ![key] = value]]]]

\* BookEditor.handleUpdatePage: nothing for the cover, else page idx with
\* [key] replaced
handleUpdatePage(proj, idx, key, value) ==
    IF idx = -1
    THEN [called |-> FALSE, project |-> proj]
    ELSE [called |-> TRUE, project |-> [proj EXCEPT !.pages[idx + 1][key] = value]]

CoverKeys == {"title", "subtitle", "coverImagePrompt", "visualIdentity", "primaryColor"}

PageViewProjectKeys == {"primaryColor", "secondaryColor", "visualIdentity"}

PageKeys == {"title", "content", "imagePrompt"}

EditedValue(key) == IF key \in {"primaryColor", "secondaryColor"} THEN "#000000" ELSE "Edited."

\* the onChange handlers that call handleUpdateProject
UpdateProjectField ==
    /\ Rendered
    /\ edits < MaxEdits
    /\ \E key \in (IF CoverView THEN CoverKeys ELSE PageViewProjectKeys) :
         /\ onUpdateProject(handleUpdateProject(project, key, EditedValue(key)),
                            editor, inflight)
         /\ last' = [Event("handleUpdateProject") EXCEPT !.input = key, !.updated = TRUE]
    /\ edits' = edits + 1
    /\ UNCHANGED <<apiKey, nextUUID, now, isLoading, containers, submits, ops>>

\* the onChange handlers that call handleUpdatePage
UpdatePageField ==
    /\ PageView
    /\ edits < MaxEdits
    /\ \E key \in PageKeys :
         LET u == handleUpdatePage(project, editor.activePageIndex, key, EditedValue(key))
         IN  /\ onUpdateProject(u.project, editor, inflight)
             /\ last' = [Event("handleUpdatePage") EXCEPT
                           !.input = key, !.index = editor.activePageIndex,
                           !.updated = u.called]
    /\ edits' = edits + 1
    /\ UNCHANGED <<apiKey, nextUUID, now, isLoading, containers, submits, ops>>

\* onBlur of the mascot tip (rendered when mascotTip !== undefined):
\* mascotTip: e.currentTarget.textContent || ''
MascotTipBlur ==
    /\ PageView
    /\ ActivePage(project, editor.activePageIndex).mascotTip # Undefined
    /\ edits < MaxEdits
    /\ \E textContent \in {"", "Edited tip."} :
         onUpdateProject([project EXCEPT
                            !.pages[editor.activePageIndex + 1].mascotTip = Or(textContent, "")],
                         editor, inflight)
    /\ last' = [Event("mascotTip.onBlur") EXCEPT
                  !.index = editor.activePageIndex, !.updated = TRUE]
    /\ edits' = edits + 1
    /\ UNCHANGED <<apiKey, nextUUID, now, isLoading, containers, submits, ops>>

\* ------------------------------------------------- BookEditor.generateImage
AppImageResponses ==
    {Rejected, ImageResponse(FALSE, <<>>), ImageResponse(TRUE, <<TextPart>>),
     ImageResponse(TRUE, <<TextPart, PngPart>>)}

AlertImage == "Falha ao gerar imagem. Verifique se sua chave API e valida."

\* the arguments generateImage passes to generateImageForPage
ImagePrompt(proj, idx) ==
    IF idx = -1 THEN Or(proj.coverImagePrompt, "Capa do livro")
    ELSE ActivePage(proj, idx).imagePrompt

ImageContext(proj, idx) ==
    IF idx = -1
    THEN "LIVRO: " \o proj.title \o ". SUBTITULO: " \o proj.subtitle
           \o ". TEMA: " \o proj.topic \o "."
    ELSE ActivePage(proj, idx).content

\* the project generateImage hands to onUpdateProject (lines 60 and 65-68)
\* the image stored in every page instead of the page matched by id
WithImage_EveryPage(proj, idx, imageUrl) ==
    IF idx = -1
    THEN [proj EXCEPT !.coverImage = imageUrl]
    ELSE [proj EXCEPT !.pages =
            [i \in 1..Len(proj.pages) |->
               [proj.pages[i] EXCEPT !.generatedImage = imageUrl]]]

WithImage(proj, idx, imageUrl) ==
    IF idx = -1
    THEN [proj EXCEPT !.coverImage = imageUrl]
    ELSE [proj EXCEPT !.pages =
            [i \in 1..Len(proj.pages) |->
               IF proj.pages[i].id = ActivePage(proj, idx).id
               THEN [proj.pages[i] EXCEPT !.generatedImage = imageUrl]
               ELSE proj.pages[i]]]

\* a finally block that leaves the flag as it is
Clear_Keeps(o, flag) == editor

\* a busy flag is cleared in the component that set it, if still mounted
Clear(o, flag) == IF o.live THEN [editor EXCEPT ![flag] = FALSE] ELSE editor

\* generateImage up to the await (the button is disabled while
\* isGeneratingImage)
generateImage ==
    /\ Rendered
    /\ ~editor.isGeneratingImage
    /\ LET call == Invoke(apiKey)
             ev   == [Event("generateImage") EXCEPT
                        !.requests = call.requests, !.threw = call.threw,
                        !.index = editor.activePageIndex]
       IN  IF call.threw
           THEN /\ UNCHANGED <<editor, inflight, ops>>
                /\ last' = Catch(ev, AlertImage)
           ELSE /\ ops < MaxOps
                /\ ops' = ops + 1
                /\ editor' = [editor EXCEPT !.isGeneratingImage = TRUE]
                /\ inflight' = inflight \cup
                     {Op("image", NoData, project, editor.activePageIndex, "", <<>>)}
                /\ last' = ev
    /\ UNCHANGED <<apiKey, nextUUID, now, project, isLoading, wizard, containers,
                   submits, edits>>

\* generateImage from the await on
ImageSettled ==
    \E o \in inflight, r \in AppImageResponses :
      /\ o.kind = "image"
      /\ LET res == generateImageForPage(ImagePrompt(o.project, o.activePageIndex),
                                         ImageContext(o.project, o.activePageIndex),
                                         o.project.visualIdentity, r)
             ev  == [Event("generateImage.settled") EXCEPT
                       !.response = r, !.threw = res.threw, !.text = res.value,
                       !.index = o.activePageIndex]
         IN  IF res.threw
             THEN /\ editor' = Clear(o, "isGeneratingImage")
                  /\ inflight' = inflight \ {o}
                  /\ last' = Catch(ev, AlertImage)
                  /\ UNCHANGED <<project, wizard>>
             ELSE /\ onUpdateProject(WithImage(o.project, o.activePageIndex, res.value),
                                     Clear(o, "isGeneratingImage"), inflight \ {o})
                  /\ last' = [ev EXCEPT !.updated = TRUE]
      /\ UNCHANGED <<apiKey, nextUUID, now, isLoading, containers, submits, edits, ops>>

\* --------------------------------------------- BookEditor.handleUploadImage
ImageFiles == {"data:image/png;base64,UPLOAD"}

\* handleUploadImage: reader.readAsDataURL(file)
handleUploadImage ==
    /\ Rendered
    /\ ops < MaxOps
    /\ ops' = ops + 1
    /\ \E file \in ImageFiles :
         inflight' = inflight \cup
           {Op("readImage", NoData, project, editor.activePageIndex, file, <<>>)}
    /\ last' = [Event("handleUploadImage") EXCEPT !.index = editor.activePageIndex]
    /\ UNCHANGED <<apiKey, nextUUID, now, project, isLoading, wizard, editor,
                   containers, submits, edits>>

\* reader.onload of handleUploadImage
ImageReaderOnload ==
    \E o \in inflight :
      /\ o.kind = "readImage"
      /\ LET u == IF o.activePageIndex = -1
                  THEN [called |-> TRUE,
                        project |-> [o.project EXCEPT !.coverImage = o.file]]
                  ELSE handleUpdatePage(o.project, o.activePageIndex,
                                        "generatedImage", o.file)
         IN  /\ onUpdateProject(u.project, editor, inflight \ {o})
             /\ last' = [Event("handleUploadImage.onload") EXCEPT
                           !.index = o.activePageIndex, !.text = o.file,
                           !.updated = u.called]
      /\ UNCHANGED <<apiKey, nextUUID, now, isLoading, containers, submits, edits, ops>>

\* ---------------------------------------------- BookEditor.handleRefineText
Instruction == "Tornar mais tecnico e direto"

\* handleRefineText up to the await (page editor only; the button is disabled
\* while isRefiningText).  With no key refineText rejects at once; there is no
\* catch block, only finally.
handleRefineText ==
    /\ PageView
    /\ ~editor.isRefiningText
    /\ LET call == Invoke(apiKey)
             ev   == [Event("handleRefineText") EXCEPT
                        !.requests = call.requests, !.threw = call.threw,
                        !.index = editor.activePageIndex,
                        !.input = ActivePage(project, editor.activePageIndex).content]
       IN  IF call.threw
           THEN /\ UNCHANGED <<editor, inflight, ops>>
                /\ last' = ev
           ELSE /\ ops < MaxOps
                /\ ops' = ops + 1
                /\ editor' = [editor EXCEPT !.isRefiningText = TRUE]
                /\ inflight' = inflight \cup
                     {Op("refine", NoData, project, editor.activePageIndex, "", <<>>)}
                /\ last' = ev
    /\ UNCHANGED <<apiKey, nextUUID, now, project, isLoading, wizard, containers,
                   submits, edits>>

\* handleRefineText from the await on
RefineSettled ==
    \E o \in inflight, r \in AllRefineResponses :
      /\ o.kind = "refine"
      /\ LET currentText == ActivePage(o.project, o.activePageIndex).content
             res == refineText(currentText, Instruction, r)
             ev  == [Event("handleRefineText.settled") EXCEPT
                       !.response = r, !.threw = res.threw, !.text = res.value,
                       !.input = currentText, !.index = o.activePageIndex]
         IN  IF res.threw
             THEN /\ editor' = Clear(o, "isRefiningText")
                  /\ inflight' = inflight \ {o}
                  /\ last' = ev
                  /\ UNCHANGED <<project, wizard>>
             ELSE LET u == handleUpdatePage(o.project, o.activePageIndex,
                                            "content", res.value)
                  IN  /\ onUpdateProject(u.project, Clear(o, "isRefiningText"),
                                         inflight \ {o})
                      /\ last' = [ev EXCEPT !.updated = u.called]
      /\ UNCHANGED <<apiKey, nextUUID, now, isLoading, containers, submits, edits, ops>>

\* --------------------------------------------------------------- exports
\* An artifact is the file handed to the browser: its format and its units in
\* order, each unit named by its step label (0 for the cover).
Artifact(format, units) == [format |-> format, units |-> units]

CoverLabel == 0

\* "Passo ${page.pageNumber}" (PDF) and `PASSO ${page.pageNumber}` (slides)
PageNumberLabels(proj) == [i \in 1..Len(proj.pages) |-> proj.pages[i].pageNumber]

\* `PASSO ${i}`: the 0-based forEach index as the label
PositionLabels_ZeroBased(proj) == [i \in 1..Len(proj.pages) |-> i - 1]

\* `PASSO ${i+1}` of exportWord, i the 0-based forEach index
PositionLabels(proj) == [i \in 1..Len(proj.pages) |-> (i - 1) + 1]

AlertPDF == "Erro ao exportar PDF."

AlertWord == "Erro ao exportar Word."

AlertPPT == "Erro ao gerar PowerPoint."

\* exportPDF up to the first await: bookRef.current exists in the page editor,
\* the only view with the export buttons (both disabled while isExporting);
\* the container is appended and the cover handed to html2canvas
exportPDF ==
    /\ PageView
    /\ ~editor.isExporting
    /\ ops < MaxOps
    /\ ops' = ops + 1
    /\ editor' = [editor EXCEPT !.isExporting = TRUE]
    /\ containers' = containers + 1
    /\ inflight' = inflight \cup
         {Op("pdf", NoData, project, editor.activePageIndex, "", <<>>)}
    /\ last' = Event("exportPDF")
    /\ UNCHANGED <<apiKey, nextUUID, now, project, isLoading, wizard, submits, edits>>

\* the label of the unit exportPDF is rasterizing: the cover first, then the
\* pages of the project of its closure in order
PdfUnitLabel(o) ==
    IF Len(o.doc) = 0 THEN CoverLabel ELSE PageNumberLabels(o.project)[Len(o.doc)]

\* a rasterization wrapped in its own try/catch: a page that fails is left
\* blank (-1) and the export goes on
Rasterized_SkipsFailedPage ==
    \E o \in inflight, ok \in BOOLEAN :
      /\ o.kind = "pdf"
      /\ LET doc == Append(o.doc, IF ok THEN PdfUnitLabel(o) ELSE -1)
         IN  IF Len(doc) <= Len(o.project.pages)
             THEN /\ inflight' = (inflight \ {o}) \cup {[o EXCEPT !.doc = doc]}
                  /\ last' = Event("exportPDF.rasterized")
                  /\ UNCHANGED <<editor, containers>>
             ELSE /\ inflight' = inflight \ {o}
                  /\ editor' = Clear(o, "isExporting")
                  /\ containers' = containers - 1
                  /\ last' = [Event("exportPDF.settled") EXCEPT
                                !.artifact = Artifact("pdf", doc)]
      /\ UNCHANGED <<apiKey, nextUUID, now, project, isLoading, wizard, submits, edits,
                   ops>>

\* exportPDF from an await of html2canvas on: the rasterization threw, or its
\* canvas is embedded and either the next page is handed to html2canvas or the
\* document is saved; catch and finally as in lines 169-175
Rasterized ==
    \E o \in inflight, ok \in BOOLEAN :
      /\ o.kind = "pdf"
      /\ LET doc == Append(o.doc, PdfUnitLabel(o))
         IN  IF ~ok
             THEN /\ inflight' = inflight \ {o}
                  /\ editor' = Clear(o, "isExporting")
                  /\ containers' = containers - 1
                  /\ last' = Catch(Event("exportPDF.settled"), AlertPDF)
             ELSE IF Len(doc) <= Len(o.project.pages)
             THEN /\ inflight' = (inflight \ {o}) \cup {[o EXCEPT !.doc = doc]}
                  /\ last' = Event("exportPDF.rasterized")
                  /\ UNCHANGED <<editor, containers>>
             ELSE /\ inflight' = inflight \ {o}
                  /\ editor' = Clear(o, "isExporting")
                  /\ containers' = containers - 1
                  /\ last' = [Event("exportPDF.settled") EXCEPT
                                !.artifact = Artifact("pdf", doc)]
      /\ UNCHANGED <<apiKey, nextUUID, now, project, isLoading, wizard, submits, edits,
                   ops>>

\* an export that stores the file name it derived as the project's title
exportWord_Retitles ==
    /\ PageView
    /\ onUpdateProject([project EXCEPT !.title = "Manual_export"], editor, inflight)
    /\ last' = [Event("exportWord") EXCEPT
                  !.artifact = Artifact("doc", <<CoverLabel>> \o PositionLabels(project))]
    /\ UNCHANGED <<apiKey, nextUUID, now, isLoading, containers, submits, edits, ops>>

\* exportWord: synchronous; the try block builds and downloads the document
\* or throws
exportWord ==
    /\ PageView
    /\ \E ok \in BOOLEAN :
         last' = IF ok
                 THEN [Event("exportWord") EXCEPT
                         !.artifact = Artifact("doc", <<CoverLabel>> \o PositionLabels(project))]
                 ELSE Catch(Event("exportWord"), AlertWord)
    /\ UNCHANGED <<apiKey, nextUUID, now, project, isLoading, wizard, editor,
                   inflight, containers, submits, edits, ops>>

\* exportPPT up to the await of pptx.writeFile: the deck is built from the
\* project of this render, or building it throws
exportPPT ==
    /\ PageView
    /\ ~editor.isExporting
    /\ \E ok \in BOOLEAN :
         IF ok
         THEN /\ ops < MaxOps
              /\ ops' = ops + 1
              /\ editor' = [editor EXCEPT !.isExporting = TRUE]
              /\ inflight' = inflight \cup
                   {Op("ppt", NoData, project, editor.activePageIndex, "",
                       <<CoverLabel>> \o PageNumberLabels(project))}
              /\ last' = Event("exportPPT")
         ELSE /\ UNCHANGED <<editor, inflight, ops>>
              /\ last' = Catch(Event("exportPPT"), AlertPPT)
    /\ UNCHANGED <<apiKey, nextUUID, now, project, isLoading, wizard, containers,
                   submits, edits>>

\* exportPPT from the await on: the file was written, or writeFile rejected
PptWritten ==
    \E o \in inflight, ok \in BOOLEAN :
      /\ o.kind = "ppt"
      /\ inflight' = inflight \ {o}
      /\ editor' = Clear(o, "isExporting")
      /\ last' = IF ok
                 THEN [Event("exportPPT.settled") EXCEPT !.artifact = Artifact("pptx", o.doc)]
                 ELSE Catch(Event("exportPPT.settled"), AlertPPT)
      /\ UNCHANGED <<apiKey, nextUUID, now, project, isLoading, wizard, containers,
                     submits, edits, ops>>

\* saveProject: JSON.stringify(project), downloaded
saveProject ==
    /\ Rendered
    /\ last' = [Event("saveProject") EXCEPT !.artifact = Artifact("json", <<>>)]
    /\ UNCHANGED <<apiKey, nextUUID, now, project, isLoading, wizard, editor,
                   inflight, containers, submits, edits, ops>>

\* ------------------------------------------------------ the application
Next ==
    \/ WizardSetTopic
    \/ nextStep
    \/ prevStep
    \/ handleSubmit
    \/ StructureSettled
    \/ onBack
    \/ setActivePageIndex
    \/ AddPage
    \/ UpdateProjectField
    \/ UpdatePageField
    \/ MascotTipBlur
    \/ generateImage
    \/ ImageSettled
    \/ handleUploadImage
    \/ ImageReaderOnload
    \/ handleRefineText
    \/ RefineSettled
    \/ exportPDF
    \/ Rasterized
    \/ exportWord
    \/ exportPPT
    \/ PptWritten
    \/ saveProject

Spec == Init /\ [][Next]_vars

\* Spec with the scheduling of the awaited operations: a request, a
\* rasterization or a file write that was issued settles (resolves or
\* rejects), and its continuation runs
LiveSpec ==
    /\ Spec
    /\ WF_vars(StructureSettled)
    /\ WF_vars(ImageSettled)
    /\ WF_vars(RefineSettled)
    /\ WF_vars(Rasterized)
    /\ WF_vars(PptWritten)

\* ------------------------------------------------- the wizard in full
\* The Wizard with all its controls and its file reads, the App around it,
\* and of the BookEditor only the way back to the wizard.
WizardNext ==
    \/ WizardSetTopic
    \/ handleFileChange
    \/ WizardReaderOnload
    \/ WizardSettings
    \/ nextStep
    \/ prevStep
    \/ handleSubmit
    \/ StructureSettled
    \/ onBack

WizardSpec == Init /\ [][WizardNext]_vars

\* ------------------------------------------------ the exports on their own
\* The editor's exports across two projects: the wizard's path to a project,
\* 'back to start', and the two awaited exports, with room for two submits
\* and two exports.
ExportInit ==
    /\ apiKey \in ApiKeys
    /\ nextUUID = 0
    /\ now = 0
    /\ project = Null
    /\ isLoading = FALSE
    /\ wizard = InitialWizard
    /\ editor = InitialEditor
    /\ inflight = {}
    /\ containers = 0
    /\ submits = MaxSubmits - 2
    /\ edits = 0
    /\ ops = MaxOps - 2
    /\ last = Event("init")

ExportNext ==
    \/ WizardSetTopic
    \/ nextStep
    \/ handleSubmit
    \/ StructureSettled
    \/ onBack
    \/ setActivePageIndex
    \/ exportPDF
    \/ Rasterized
    \/ exportPPT
    \/ PptWritten

ExportSpec == ExportInit /\ [][ExportNext]_vars

\* ------------------------------------- the service functions called directly
\* Every call of the three exported functions of geminiService.ts, with
\* arguments from small sets and every answer of the service, one call at a
\* time.
SvcPageCounts == {2, 100}

SvcContexts == {"", "Base text."}

SvcPrompts == {"", "draw A"}

SvcTexts == {"", "Tighten the bolt."}

StructureArgs ==
    {[topic |-> t, uploadedContext |-> c, genre |-> EDUCATIONAL,
      imageStyle |-> FLAT_DESIGN, pageCount |-> n] :
        t \in Topics, c \in SvcContexts, n \in SvcPageCounts}

ImageArgs ==
    {[prompt |-> q, contextText |-> "Step A.", visualIdentity |-> "grey motor"] :
        q \in SvcPrompts}

RefineArgs ==
    {[currentText |-> t, instruction |-> "make it more technical"] : t \in SvcTexts}

\* a call up to its await: kind names the function, args its arguments
Call(kind, args) ==
    /\ inflight = {}
    /\ ops < MaxCalls
    /\ ops' = ops + 1
    /\ LET call == Invoke(apiKey)
       IN  /\ inflight' = IF call.threw THEN {}
                          ELSE {Op(kind, args, Null, -1, "", <<>>)}
           /\ last' = [Event(kind) EXCEPT
                         !.threw = call.threw, !.requests = call.requests,
                         !.repeated = (last.op = kind \o ".settled" /\ last.input = args)]
    /\ UNCHANGED <<apiKey, nextUUID, now, project, isLoading, wizard, editor,
                   containers, submits, edits>>

CallStructure == \E args \in StructureArgs : Call("generateBookStructure", args)

CallImage == \E args \in ImageArgs : Call("generateImageForPage", args)

CallRefine == \E args \in RefineArgs : Call("refineText", args)

StructureReturned ==
    \E o \in inflight, r \in AllStructureResponses :
      /\ o.kind = "generateBookStructure"
      /\ LET a   == o.data
             res == generateBookStructure(a.topic, a.uploadedContext, a.genre,
                                          a.imageStyle, a.pageCount, r, nextUUID)
         IN  /\ nextUUID' = nextUUID + res.uuids
             /\ last' = [Event("generateBookStructure.settled") EXCEPT
                           !.response = r, !.threw = res.threw,
                           !.structure = res.value, !.pageCount = a.pageCount,
                           !.input = a]
      /\ inflight' = {}
      /\ UNCHANGED <<apiKey, now, project, isLoading, wizard, editor, containers,
                     submits, edits, ops>>

ImageReturned ==
    \E o \in inflight, r \in AllImageResponses :
      /\ o.kind = "generateImageForPage"
      /\ LET a   == o.data
             res == generateImageForPage(a.prompt, a.contextText, a.visualIdentity, r)
         IN  last' = [Event("generateImageForPage.settled") EXCEPT
                        !.response = r, !.threw = res.threw, !.text = res.value,
                        !.input = a]
      /\ inflight' = {}
      /\ UNCHANGED <<apiKey, nextUUID, now, project, isLoading, wizard, editor,
                     containers, submits, edits, ops>>

RefineReturned ==
    \E o \in inflight, r \in AllRefineResponses :
      /\ o.kind = "refineText"
      /\ LET a   == o.data
             res == refineText(a.currentText, a.instruction, r)
         IN  last' = [Event("refineText.settled") EXCEPT
                        !.response = r, !.threw = res.threw, !.text = res.value,
                        !.input = a]
      /\ inflight' = {}
      /\ UNCHANGED <<apiKey, nextUUID, now, project, isLoading, wizard, editor,
                     containers, submits, edits, ops>>

SvcNext ==
    \/ CallStructure
    \/ StructureReturned
    \/ CallImage
    \/ ImageReturned
    \/ CallRefine
    \/ RefineReturned

SvcSpec == Init /\ [][SvcNext]_vars

\* ------------------------------------------------------------ properties
SvcFunctions == {"generateBookStructure", "generateImageForPage", "refineText"}

SvcSettled == {f \o ".settled" : f \in SvcFunctions}

\* C1: for every pageCount in 2..100, a successful generateBookStructure
\* returns exactly pageCount pages, whatever the service sent back.
C1_ExactlyPageCountPages ==
    (last.op = "generateBookStructure.settled" /\ ~last.threw
       /\ last.pageCount \in 2..100)
      => Len(last.structure.pages) = last.pageCount

\* C2: in a successful result of generateBookStructure the page at 0-based
\* index i has pageNumber i+1 and an identifier issued by crypto.randomUUID()
\* during this call, whatever id or pageNumber the service's page carried, and
\* no two pages share an identifier.
C2_FreshIdsAndPositions ==
    (last.op = "generateBookStructure.settled" /\ ~last.threw) =>
      LET pages == last.structure.pages
          n     == Len(pages)
      IN  /\ \A i \in 1..n :
               /\ pages[i].pageNumber = (i - 1) + 1
               /\ pages[i].id \in (nextUUID - n + 1) .. nextUUID
          /\ \A i, j \in 1..n : i # j => pages[i].id # pages[j].id

C2_Witness ==
    /\ last.op = "generateBookStructure.settled" /\ ~last.threw
    /\ Len(last.structure.pages) = 2
    /\ last.response.text.value.pages.items[2] = SvcPageProposing
    /\ last.structure.pages[2].id # SvcPageProposing.id
    /\ last.structure.pages[2].pageNumber # SvcPageProposing.pageNumber
    /\ ops = 2

\* the structure service failed, or answered with text that is no JSON
C3_ServiceFailed ==
    /\ last.op = "handleWizardComplete.settled"
    /\ \/ last.response.settled = "rejected"
       \/ last.response.text.form = "invalid"

\* C3: when the structure service fails or its answer cannot be parsed,
\* generateBookStructure fails and handleWizardComplete sets no project: the
\* project is what it was (null, the wizard shown), and whenever
\* generateBookStructure failed no project is set.
C3_FailureAdoptsNoProject ==
    [][ /\ C3_ServiceFailed' => last'.threw
        /\ (last'.op = "handleWizardComplete.settled" /\ last'.threw)
             => (project' = project /\ wizard' = wizard /\ ~isLoading')
      ]_vars

C3_Witness ==
    /\ C3_ServiceFailed
    /\ last.response.settled = "resolved"
    /\ last.threw
    /\ project = Null
    /\ wizard.step = 3

\* C4: without the credential each of the three service functions fails
\* before any request is issued: the invocation sends no request and leaves
\* none awaited.
C4_NoCredentialNoRequest ==
    Falsy(apiKey) =>
      /\ last.requests = 0
      /\ inflight = {}
      /\ last.op \in SvcFunctions => last.threw

C4_Witness ==
    /\ apiKey = ""
    /\ last.op = "refineText" /\ last.threw /\ last.requests = 0
    /\ ops = 2

\* C5: with the credential every invocation of the three service functions
\* issues exactly one request: one when it is called, also when the same call
\* was made just before, and none more when that request has succeeded or
\* failed.
C5_ExactlyOneRequest ==
    ~Falsy(apiKey) =>
      /\ last.op \in SvcFunctions =>
           /\ last.requests = 1 /\ ~last.threw
           /\ Cardinality(inflight) = 1
      /\ last.op \in SvcSettled => (last.requests = 0 /\ inflight = {})

C5_Witness ==
    /\ ~Falsy(apiKey)
    /\ last.op = "generateImageForPage" /\ last.repeated
    /\ last.requests = 1

C7_EmptyAnswer ==
    /\ last.op = "handleRefineText.settled"
    /\ last.response.settled = "resolved"
    /\ Falsy(last.response.text)

\* C7: when the service answers a refine request with an empty result,
\* refineText returns currentText and throws nothing, and the content of the
\* page after handleRefineText is the content it was invoked with.
C7_EmptyRefinementKeepsText ==
    C7_EmptyAnswer =>
      /\ ~last.threw /\ last.alert = ""
      /\ last.text = last.input
      /\ project # Null
      /\ project.pages[last.index + 1].content = last.input

C7_Witness ==
    /\ C7_EmptyAnswer
    /\ last.response.text = ""
    /\ last.text = last.input
    /\ last.updated

\* a refine request failed: the credential is missing, or the service rejected
C8_RefineFailed ==
    \/ last.op = "handleRefineText" /\ Falsy(apiKey)
    \/ last.op = "handleRefineText.settled" /\ last.response.settled = "rejected"

\* C8 as stated: when a refine request fails, refineText returns its input
\* text unchanged and signals no failure to its caller.
C8_FailureReturnsInput ==
    C8_RefineFailed => (~last.threw /\ last.text = last.input)

\* C8 amended: when a refine request fails, refineText throws to
\* handleRefineText, which does not catch it: nothing is returned, no alert is
\* shown and the project is not updated.
C8_FailureThrowsUnnoticed ==
    [][ C8_RefineFailed' =>
          /\ last'.threw /\ last'.text = Undefined
          /\ last'.alert = "" /\ ~last'.updated
          /\ project' = project
      ]_vars

C8_Witness ==
    /\ last.op = "handleRefineText.settled" /\ last.response.settled = "rejected"
    /\ last.threw /\ last.alert = ""
    /\ project # Null
    /\ project.pages[last.index + 1].content = last.input

FailureAlerts ==
    [handleWizardComplete |-> AlertStructure, generateImage |-> AlertImage,
     exportPDF |-> AlertPDF, exportWord |-> AlertWord, exportPPT |-> AlertPPT]

AlertingOps ==
    {"handleWizardComplete", "handleWizardComplete.settled", "generateImage",
     "generateImage.settled", "exportPDF.settled", "exportWord", "exportPPT",
     "exportPPT.settled"}

\* the handler a continuation belongs to
HandlerOf(op) ==
    CASE op \in {"handleWizardComplete", "handleWizardComplete.settled"} -> "handleWizardComplete"
      [] op \in {"generateImage", "generateImage.settled"} -> "generateImage"
      [] op = "exportPDF.settled" -> "exportPDF"
      [] op = "exportWord" -> "exportWord"
      [] op \in {"exportPPT", "exportPPT.settled"} -> "exportPPT"

\* C9: every structure generation, image generation and export (PDF, Word,
\* slides) that fails has shown its alert by the time the handler ends.
C9_FailuresAlert ==
    (last.op \in AlertingOps /\ last.threw) =>
      last.alert = FailureAlerts[HandlerOf(last.op)]

C9_Witness ==
    /\ last.op = "exportPDF.settled" /\ last.threw
    /\ last.alert = AlertPDF
    /\ containers = 0

\* C10: the add-page button, on a project of n pages, leaves n+1 pages: the
\* first n are the pages it had, in order, and the last has pageNumber n+1 and
\* an identifier no page of the project had.
C10_AddPageAppends ==
    [][ last'.op = "addPage" =>
          LET n == Len(project.pages)
          IN  /\ project # Null /\ project' # Null
              /\ Len(project'.pages) = n + 1
              /\ SubSeq(project'.pages, 1, n) = project.pages
              /\ project'.pages[n + 1].pageNumber = n + 1
              /\ \A i \in 1..n : project'.pages[n + 1].id # project.pages[i].id
      ]_vars

C10_Witness ==
    /\ last.op = "addPage"
    /\ Len(project.pages) = 3
    /\ project.pages[3].pageNumber = 3
    /\ editor.activePageIndex = 2

\* the page field a page-field update writes
C11_Key == IF last.op = "mascotTip.onBlur" THEN "mascotTip" ELSE last.input

\* C11: a page-field update (an onChange that calls handleUpdatePage, or the
\* mascot-tip blur) with page i active changes field key of page i and
\* nothing else of the project; for the cover (index -1) handleUpdatePage
\* calls nothing and leaves the project as it is.
C11_PageUpdateFrame ==
    [][ /\ last'.op \in {"handleUpdatePage", "mascotTip.onBlur"} =>
             LET i == last'.index + 1
             IN  /\ project # Null /\ project' # Null
                 /\ last'.index = editor.activePageIndex
                 /\ i \in 1..Len(project.pages)
                 /\ project' = [project EXCEPT
                                  !.pages[i][C11_Key'] = project'.pages[i][C11_Key']]
        /\ project # Null =>
             \A key \in PageKeys :
               LET u == handleUpdatePage(project, -1, key, EditedValue(key))
               IN  ~u.called /\ u.project = project
      ]_vars

C11_Witness ==
    /\ last.op = "handleUpdatePage" /\ last.input = "content" /\ last.index = 1
    /\ Len(project.pages) >= 2
    /\ project.pages[2].content = EditedValue("content")
    /\ project.pages[1].content # EditedValue("content")

\* the project an editor operation works on: for the completion of an
\* awaited operation the project of the render that started it, else the
\* project shown
OperatedProject ==
    IF \E o \in inflight : o \notin inflight' /\ o.kind \in EditorKinds
    THEN (CHOOSE o \in inflight : o \notin inflight' /\ o.kind \in EditorKinds).project
    ELSE project

\* a page of proj that is page q: same id, same pageNumber
KeepsNumber(q, proj) ==
    \A j \in 1..Len(proj.pages) :
      proj.pages[j].id = q.id => proj.pages[j].pageNumber = q.pageNumber

\* C12: no operation of the editor changes the id or createdAt of the project
\* it works on; a page of the project it leaves is a page the project had,
\* with the id and pageNumber it was created with, or the page just added.
C12_IdentityKept ==
    [][ (project # Null /\ project' # Null /\ last'.updated
           /\ last'.op # "handleWizardComplete.settled") =>
          /\ project'.id = OperatedProject.id
          /\ project'.createdAt = OperatedProject.createdAt
          /\ \A i \in 1..Len(project'.pages) :
               LET q == project'.pages[i]
               IN  /\ KeepsNumber(q, OperatedProject)
                   /\ KeepsNumber(q, project)
                   /\ \/ \E j \in 1..Len(OperatedProject.pages) :
                           OperatedProject.pages[j].id = q.id
                      \/ last'.op = "addPage" /\ q.id = nextUUID' /\ q.id > nextUUID
      ]_vars

C12_Witness ==
    /\ last.op = "generateImage.settled" /\ last.updated /\ last.index = 0
    /\ project # Null
    /\ Len(project.pages) = 2
    /\ project.pages[1].generatedImage = last.text
    /\ project.pages[1].pageNumber = 1
    /\ project.id = nextUUID

\* C13: in every state of an adopted project, also with add-page and edits
\* interleaved with image generations and refinements in flight, the page at
\* 0-based index i has pageNumber i+1 and no two pages share an identifier.
C13_ContiguousNumbering ==
    project # Null =>
      /\ \A i \in 1..Len(project.pages) : project.pages[i].pageNumber = (i - 1) + 1
      /\ \A i, j \in 1..Len(project.pages) :
           i # j => project.pages[i].id # project.pages[j].id

C13_Witness ==
    /\ last.op = "addPage"
    /\ Len(project.pages) = 3
    /\ \E o \in inflight :
         /\ o.kind \in {"image", "refine"}
         /\ Len(o.project.pages) < Len(project.pages)

\* the handlers that start a change of the project
MutatingStarts ==
    {"handleUpdateProject", "handleUpdatePage", "mascotTip.onBlur", "addPage",
     "handleUploadImage", "generateImage", "handleRefineText"}

\* an image generation or a refinement of the mounted editor is outstanding
Outstanding(pending) ==
    \E o \in pending : o.kind \in {"image", "refine"} /\ o.live

\* C14: while an image generation or a text refinement is outstanding the
\* editor lets no other mutating operation start: no field edit, no add page,
\* no upload, no second generation or refinement.
C14_OneMutationAtATime ==
    [][ Outstanding(inflight) => last'.op \notin MutatingStarts ]_vars

ExportOps ==
    {"exportPDF", "exportPDF.rasterized", "exportPDF.settled", "exportWord",
     "exportPPT", "exportPPT.settled", "saveProject"}

\* C15: exportPDF, exportWord, exportPPT and saveProject never call
\* onUpdateProject: after every step of an export or save, successful or
\* failed, the project is the project before it.
C15_ExportsReadOnly ==
    [][ last'.op \in ExportOps => (project' = project /\ ~last'.updated) ]_vars

C15_Witness ==
    /\ last.op = "exportPPT.settled" /\ ~last.threw
    /\ last.artifact.format = "pptx"
    /\ project # Null
    /\ Len(last.artifact.units) = Len(project.pages) + 1

\* C16: in every editor state of a project, whatever the view and whatever
\* exports ran before, each of the three exports can be invoked (none being
\* in flight) and produces its artifact.
C16_ExportsAlwaysInvokable ==
    (project # Null /\ ~editor.isExporting /\ ops < MaxOps) =>
      /\ ENABLED exportPDF
      /\ ENABLED exportWord
      /\ ENABLED exportPPT

\* C17: for a project with zero pages an export can be carried out from the
\* editor and yields an artifact holding exactly the cover: one PDF page, one
\* slide, the cover section only.
C17_ZeroPagesExportable ==
    /\ (project # Null /\ Len(project.pages) = 0 /\ ~editor.isExporting /\ ops < MaxOps) =>
         (ENABLED exportPDF \/ ENABLED exportWord \/ ENABLED exportPPT)
    /\ (last.op \in ExportOps /\ last.artifact # NoArtifact /\ project # Null
          /\ last.artifact.format # "json" /\ Len(project.pages) = 0) =>
         last.artifact.units = <<CoverLabel>>

\* the project an export that has just produced its file was started with
ExportedProject ==
    IF last'.op = "exportWord" THEN project
    ELSE (CHOOSE o \in inflight : o \notin inflight').project

\* C18: a successful export of a project of n pages emits n+1 units in each
\* format: the cover first, then one unit per page in the order of the pages,
\* the k-th of them labelled step k.
C18_CoverThenPagesInOrder ==
    [][ (last'.op \in {"exportPDF.settled", "exportWord", "exportPPT.settled"}
           /\ last'.artifact # NoArtifact) =>
          /\ Len(last'.artifact.units) = Len(ExportedProject.pages) + 1
          /\ last'.artifact.units[1] = CoverLabel
          /\ \A k \in 1..Len(ExportedProject.pages) : last'.artifact.units[k + 1] = k
      ]_vars

C18_Witness ==
    /\ last.op = "exportPDF.settled"
    /\ last.artifact # NoArtifact
    /\ last.artifact.units = <<CoverLabel, 1, 2, 3>>

\* the PDF export that ends in this step
EndingPdfExport == CHOOSE o \in inflight : o.kind = "pdf" /\ o \notin inflight'

\* C19: when rasterizing the cover or a page throws, exportPDF stops there,
\* saves no file and reports the failure; a PDF is saved only when the cover
\* and every page were rasterized.
C19_PdfAllOrNothing ==
    [][ last'.op = "exportPDF.settled" =>
          /\ \A o \in inflight' : o.kind = "pdf" => o \in inflight
          /\ IF last'.threw
             THEN /\ last'.artifact = NoArtifact
                  /\ last'.alert = AlertPDF
                  /\ Len(EndingPdfExport.doc) <= Len(EndingPdfExport.project.pages)
             ELSE /\ last'.artifact.format = "pdf"
                  /\ Len(EndingPdfExport.doc) = Len(EndingPdfExport.project.pages)
                  /\ last'.artifact.units
                       = <<CoverLabel>> \o PageNumberLabels(EndingPdfExport.project)
      ]_vars

C19_Witness ==
    /\ last.op = "exportPDF.settled" /\ last.threw
    /\ last.artifact = NoArtifact
    /\ \A o \in inflight : o.kind # "pdf"
    /\ project # Null /\ Len(project.pages) = 2
    /\ ~editor.isExporting

\* neither a topic nor an uploaded text
NothingToWriteAbout(data) == Falsy(data.topic) /\ Falsy(data.uploadedContext)

\* C20: in every wizard state with step >= 2, and at every submit, topic or
\* uploadedContext is non-empty, whatever next/back steps and edits led there,
\* so the structure generator is never invoked with both empty.
C20_TopicOrContextGiven ==
    /\ (WizardShown /\ wizard.step >= 2) => ~NothingToWriteAbout(wizard.data)
    /\ \A o \in inflight : o.kind = "structure" => ~NothingToWriteAbout(o.data)

\* C21: whenever the wizard submits, the pageCount handed to
\* generateBookStructure is an integer in 2..100, whatever was typed in the
\* page-count field.
C21_PageCountInRange ==
    /\ last.op = "handleWizardComplete" => last.pageCount \in 2..100
    /\ \A o \in inflight : o.kind = "structure" => o.data.pageCount \in 2..100

\* an image generation has failed: no credential, the service rejected, or
\* its response carries no image part
C22_ImageFailed ==
    \/ last.op = "generateImage" /\ Falsy(apiKey)
    \/ /\ last.op = "generateImage.settled"
       /\ \/ last.response.settled = "rejected"
          \/ ~last.response.hasParts
          \/ \A k \in 1..Len(last.response.parts) : ~last.response.parts[k].inlineData

TextFields == {"title", "subtitle", "visualIdentity", "coverImagePrompt"}

\* a structure generation of the wizard has succeeded
C23_Generated == last.op = "handleWizardComplete.settled" /\ ~last.threw

\* the object the service sent (the empty object for an empty body)
C23_Sent == IF last.response.text.form = "json" THEN last.response.text.value
            ELSE EmptyObject

\* C23 as stated: on success each of title, subtitle, visualIdentity and
\* coverImagePrompt of the result is the service's value when that is
\* non-empty and else a non-empty default, and each is non-empty in the
\* adopted project, also with an empty topic.
C23_FieldsPopulated ==
    C23_Generated =>
      \A f \in TextFields :
        /\ IF Falsy(C23_Sent[f]) THEN ~Falsy(last.structure[f])
           ELSE last.structure[f] = C23_Sent[f]
        /\ ~Falsy(project[f])

\* C23 amended: the result's title is the service's or else the topic, which
\* may be empty; subtitle, visualIdentity and coverImagePrompt are the
\* service's or else a non-empty default, the last two built around the
\* topic; in the adopted project all four are non-empty, the title being
\* "Novo Livro" when the result's is empty.
C23_FieldsPopulatedByApp ==
    C23_Generated =>
      LET st    == last.structure
          topic == last.input
      IN  /\ \A f \in TextFields : ~Falsy(C23_Sent[f]) => st[f] = C23_Sent[f]
          /\ Falsy(C23_Sent.title) => st.title = topic
          /\ Falsy(C23_Sent.subtitle) => st.subtitle = "Manual Pratico SapuText"
          /\ Falsy(C23_Sent.visualIdentity) =>
               st.visualIdentity = "Estilo consistente para " \o topic
                                     \o ", fundo branco e limpo."
          /\ Falsy(C23_Sent.coverImagePrompt) =>
               st.coverImagePrompt = "Uma ilustracao tecnica e artistica sobre "
                                       \o topic \o ", alta qualidade"
          /\ \A f \in TextFields \ {"title"} : ~Falsy(st[f]) /\ project[f] = st[f]
          /\ project.title = (IF Falsy(st.title) THEN "Novo Livro" ELSE st.title)
          /\ \A f \in TextFields : ~Falsy(project[f])

C23_Witness ==
    /\ C23_Generated
    /\ last.input = ""
    /\ Falsy(C23_Sent.title)
    /\ last.structure.title = ""
    /\ project.title = "Novo Livro"

\* C24: when an image generation started with page P active succeeds, the
\* project it leaves has the image as generatedImage of the page with P's id
\* and every other page and the cover image as the generation found them,
\* whichever page is selected at that moment; a cover generation sets
\* coverImage and leaves every page as it found it.
C24_ImageStoredOnItsPage ==
    [][ (last'.op = "generateImage.settled" /\ last'.updated) =>
          LET S   == OperatedProject
              idx == last'.index
              img == last'.text
          IN  /\ project' # Null
              /\ Len(project'.pages) = Len(S.pages)
              /\ IF idx = -1
                 THEN /\ project'.coverImage = img
                      /\ project'.pages = S.pages
                 ELSE /\ idx + 1 \in 1..Len(S.pages)
                      /\ project'.coverImage = S.coverImage
                      /\ \A i \in 1..Len(S.pages) :
                           IF S.pages[i].id = S.pages[idx + 1].id
                           THEN project'.pages[i] =
                                  [S.pages[i] EXCEPT !.generatedImage = img]
                           ELSE project'.pages[i] = S.pages[i]
      ]_vars

\* the image of page 1 arrives while page 2 is selected
C24_Witness ==
    /\ last.op = "generateImage.settled" /\ last.updated /\ last.index = 0
    /\ project # Null
    /\ editor.activePageIndex = 1
    /\ Len(project.pages) >= 2
    /\ project.pages[1].generatedImage = last.text
    /\ project.pages[2].generatedImage = Undefined
    /\ project.coverImage = Undefined

\* the completions that write one field of the project
C25_Completions ==
    {"generateImage.settled", "handleUploadImage.onload", "handleRefineText.settled"}

C25_OwnField == IF last.op = "handleRefineText.settled" THEN "content"
                ELSE "generatedImage"

\* C25: the completion of an image generation, a text refinement or an
\* image-file read changes only its own field of the project shown (the
\* cover image, or generatedImage or content of its page): every edit
\* committed while it was in flight, an added page included, is still in the
\* project afterwards.
C25_EditsSurvive ==
    [][ (last'.op \in C25_Completions /\ last'.updated /\ project # Null) =>
          /\ project' # Null
          /\ [project' EXCEPT !.pages = <<>>, !.coverImage = Undefined]
               = [project EXCEPT !.pages = <<>>, !.coverImage = Undefined]
          /\ last'.index >= 0 => project'.coverImage = project.coverImage
          /\ Len(project'.pages) = Len(project.pages)
          /\ \A i \in 1..Len(project.pages) :
               \/ project'.pages[i] = project.pages[i]
               \/ /\ last'.index >= 0
                  /\ project.pages[i].id = OperatedProject.pages[last'.index + 1].id
                  /\ [project'.pages[i] EXCEPT ![C25_OwnField'] = Undefined]
                       = [project.pages[i] EXCEPT ![C25_OwnField'] = Undefined]
      ]_vars

\* C26: while the active project is null (at the start and after a confirmed
\* 'back to start') only a successful structure generation sets it: the
\* completion of an image generation, a refinement or a file read that was
\* in flight when the user went back leaves it null.
C26_NullUntilGenerated ==
    [][ project = Null =>
          /\ last'.op \in C25_Completions => project' = Null
          /\ project' # Null =>
               last'.op = "handleWizardComplete.settled" /\ ~last'.threw
      ]_vars

\* C27: whenever the editor is mounted the active page index is -1 (cover)
\* or a valid 0-based index into the project's pages, so the page editor
\* always has an active page to render.
C27_ActiveIndexValid ==
    project # Null =>
      \/ editor.activePageIndex = -1
      \/ HasActivePage(project, editor.activePageIndex)

\* the awaited operation whose continuation runs in this step
C28_Finished == CHOOSE o \in inflight : o \notin inflight'

C28_FlagOf(op) ==
    CASE op = "generateImage.settled"    -> "isGeneratingImage"
      [] op = "handleRefineText.settled" -> "isRefiningText"
      [] OTHER                           -> "isExporting"

\* C28: when a structure generation finishes, by success or by failure,
\* isLoading is false; when an image generation, a refinement, a PDF export or
\* a slide-deck export finishes in the editor that started it, by success or
\* by failure, its flag (isGeneratingImage, isRefiningText, isExporting) is
\* false; a finished exportPDF has removed its container; and every flag
\* that is set is cleared later, and every container removed.
C28_FlagsCleared ==
    /\ [][ /\ last'.op = "handleWizardComplete.settled" => ~isLoading'
           /\ ( /\ last'.op \in {"generateImage.settled", "handleRefineText.settled",
                                 "exportPDF.settled", "exportPPT.settled"}
                /\ C28_Finished.live )
                => ~editor'[C28_FlagOf(last'.op)]
           /\ last'.op = "exportPDF.settled" => containers' = containers - 1
         ]_vars
    /\ isLoading ~> ~isLoading
    /\ editor.isGeneratingImage ~> ~editor.isGeneratingImage
    /\ editor.isRefiningText ~> ~editor.isRefiningText
    /\ editor.isExporting ~> ~editor.isExporting
    /\ (containers > 0) ~> (containers = 0)

\* a PDF export has failed: the flag is clear and the container gone
C28_Witness ==
    /\ last.op = "exportPDF.settled" /\ last.threw
    /\ project # Null
    /\ ~editor.isExporting
    /\ containers = 0
    /\ \A o \in inflight : o.kind # "pdf"

C29_Generations == {o \in inflight : o.kind = "structure"}

C30_Exports == {o \in inflight : o.kind \in {"pdf", "ppt"}}

\* C30: at most one of the PDF export and the slide-deck export is in flight
\* at any time, and so at most one rasterization; while an export of the
\* mounted editor is in flight isExporting is true there (no other export
\* has cleared it) and neither export can be started.
C30_OneExportAtATime ==
    /\ Cardinality(C30_Exports) <= 1
    /\ \A o \in C30_Exports :
         o.live => /\ editor.isExporting
                   /\ ~ENABLED exportPDF
                   /\ ~ENABLED exportPPT

====
